---- MODULE Spec2Model ----
(***************************************************************************)
(* A model of the cubesim crate of bevy_rubiks: the two cube forms         *)
(* (FaceletCube, GeoCube), the Cube trait's shared methods, the move       *)
(* algebra of scramble_parser.rs, and the Thistlethwaite-style solver the  *)
(* specification describes.                                                *)
(***************************************************************************)
EXTENDS Integers, Sequences, FiniteSets, TLC

VARIABLES
    size,       \* the CubeSize the session's cubes were created with
    facelet,    \* the FaceletCube the session holds (the receiver of calls)
    geo,        \* the GeoCube the session holds (the receiver of calls)
    history,    \* the moves applied to new(size) to reach facelet / geo
    masked,     \* the number of mask calls that produced the held cubes
    ret,        \* the value returned by the last call, until the caller binds it
    pc,         \* where the caller of simplify_moves / solve stands
    input,      \* the argument of the call: moves (simplify_moves) or text (parse_scramble)
    output,     \* what simplify_moves, solve, parse_scramble or random_scramble returned
    frame       \* the locals of the call under way and what the caller keeps beside it

vars == <<size, facelet, geo, history, masked, ret, pc, input, output, frame>>

(***************************************************************************)
(* Bounds of the model.                                                    *)
(***************************************************************************)
MaxSize == 3
MaxHistory == 2
MaxSimplifyLen == 4
MaxScramble == 3
MaxPhaseDepth == 3
MaxTokens == 2
MaxLayerCount == 3
MaxIterations == 2
MaxReferenceScramble == 2
MaxPending == 3

(***************************************************************************)
(* generic_cube.rs: Face, MoveVariant, Move.                               *)
(***************************************************************************)
Face == {"U", "L", "F", "R", "B", "D", "X"}

ORDERED_FACES == <<"U", "R", "F", "D", "L", "B">>

MoveVariant == {"Standard", "Double", "Inverse"}

\* `variant as u8`: Standard = 1, Double, Inverse.
VariantTurns(v) ==
    CASE v = "Standard" -> 1
      [] v = "Double" -> 2
      [] v = "Inverse" -> 3

FaceMoveNames == {"U", "L", "F", "R", "B", "D"}
WideMoveNames == {"Uw", "Lw", "Fw", "Rw", "Bw", "Dw"}
RotationMoveNames == {"X", "Y", "Z"}

\* A Move value: the enum variant (name), the layer count of a wide move
\* (0 for the variants that carry none) and the MoveVariant.
Mv(name, n, v) == [name |-> name, n |-> n, variant |-> v]

get_variant(mv) == mv.variant

with_variant(mv, v) == [mv EXCEPT !.variant = v]

\* std::mem::discriminant of a Move: the enum variant alone.
discriminant(mv) == mv.name

Range(f) == {f[i] : i \in DOMAIN f}

RECURSIVE Reverse(_)
Reverse(s) == IF s = <<>> THEN <<>> ELSE Reverse(Tail(s)) \o <<Head(s)>>

(***************************************************************************)
(* generic_cube.rs: the Cube trait's provided methods, shared by both      *)
(* forms.  The form's own apply_move and state are passed in.              *)
(***************************************************************************)
all_equal(arr) == \A k \in 1..Len(arr) : arr[k] = arr[1]

\* is_solved over a size and the state() sequence of a cube: the loop over
\* the six slices state[face_start..face_end].
is_solved_mut(sz, st) ==
    LET face_length == sz * sz
    IN \A i \in 0..4 :
          all_equal(SubSeq(st, i * face_length + 1, i * face_length + face_length))

is_solved(sz, st) ==
    LET face_length == sz * sz
    IN \A i \in 0..5 :
          all_equal(SubSeq(st, i * face_length + 1, i * face_length + face_length))

solved_state(sz) ==
    [k \in 1..(6 * sz * sz) |-> ORDERED_FACES[((k - 1) \div (sz * sz)) + 1]]

(***************************************************************************)
(* geometric_cube: Sticker and GeometricMove.  A sticker is the centre of  *)
(* a facelet in a grid where the faces lie at coordinate +-size and the    *)
(* facelet centres at -size+1, -size+3, ..., size-1.                       *)
(***************************************************************************)
get_face(sz, p) ==
    CASE p[1] = sz -> "R"
      [] p[1] = -sz -> "L"
      [] p[2] = sz -> "U"
      [] p[2] = -sz -> "D"
      [] p[3] = sz -> "F"
      [] p[3] = -sz -> "B"
      [] OTHER -> "X"

Sticker_new(sz, x, y, z) ==
    [current |-> <<x, y, z>>, initial |-> <<x, y, z>>,
     face |-> get_face(sz, <<x, y, z>>)]

current_face(sz, s) == get_face(sz, s.current)

initial_face(s) == s.face

set_solved(s) == [s EXCEPT !.current = s.initial]

\* The quarter turn, clockwise seen from outside the named face, of a point.
QuarterTurn(axisFace, p) ==
    CASE axisFace = "U" -> <<-p[3], p[2], p[1]>>
      [] axisFace = "D" -> <<p[3], p[2], -p[1]>>
      [] axisFace = "R" -> <<p[1], p[3], -p[2]>>
      [] axisFace = "L" -> <<p[1], -p[3], p[2]>>
      [] axisFace = "F" -> <<p[2], -p[1], p[3]>>
      [] axisFace = "B" -> <<-p[2], p[1], p[3]>>

\* The face whose clockwise turn a move follows, and the number of outer
\* layers it takes along (all of them for a whole-cube rotation).
MoveAxisFace(mv) ==
    CASE mv.name \in {"U", "Uw", "Y"} -> "U"
      [] mv.name \in {"D", "Dw"} -> "D"
      [] mv.name \in {"R", "Rw", "X"} -> "R"
      [] mv.name \in {"L", "Lw"} -> "L"
      [] mv.name \in {"F", "Fw", "Z"} -> "F"
      [] mv.name \in {"B", "Bw"} -> "B"

MoveLayers(sz, mv) ==
    CASE mv.name \in FaceMoveNames -> 1
      [] mv.name \in WideMoveNames -> mv.n
      [] mv.name \in RotationMoveNames -> sz + 1

\* GeometricMove::from(mv): the axis, the angle in quarter turns, and the
\* predicate selecting the stickers of the affected layers.
GeometricMove_from(sz, mv) ==
    [axisFace |-> MoveAxisFace(mv),
     turns |-> VariantTurns(mv.variant),
     layers |-> MoveLayers(sz, mv)]

\* Depth of a point below the named face, in half facelets.
AxisCoordinate(axisFace, p) ==
    CASE axisFace = "U" -> p[2]
      [] axisFace = "D" -> -p[2]
      [] axisFace = "R" -> p[1]
      [] axisFace = "L" -> -p[1]
      [] axisFace = "F" -> p[3]
      [] axisFace = "B" -> -p[3]

predicate(sz, gm, s) ==
    AxisCoordinate(gm.axisFace, s.current) > sz - 2 * gm.layers

RECURSIVE Turn(_, _, _)
Turn(axisFace, k, p) ==
    IF k = 0 THEN p ELSE Turn(axisFace, k - 1, QuarterTurn(axisFace, p))

Sticker_rotate(sz, s, gm) ==
    IF predicate(sz, gm, s)
    THEN [s EXCEPT !.current = Turn(gm.axisFace, gm.turns, s.current)]
    ELSE s

(***************************************************************************)
(* geometric_cube/cube.rs: GeoCube.  A cube is [size, stickers], stickers  *)
(* a sequence of <<Sticker, index>> pairs.                                 *)
(***************************************************************************)
FACE_ROTATING_MOVES ==
    << <<>>,
       <<Mv("Y", 0, "Standard"), Mv("X", 0, "Standard")>>,
       <<Mv("X", 0, "Standard")>>,
       <<Mv("X", 0, "Double")>>,
       <<Mv("Y", 0, "Inverse"), Mv("X", 0, "Standard")>>,
       <<Mv("Y", 0, "Double"), Mv("X", 0, "Standard")>> >>

\* (-size + 1 ..= size - 1).step_by(2)
range(sz) == [k \in 1..(IF sz >= 1 THEN sz ELSE 0) |-> -sz + 1 + 2 * (k - 1)]

GeoCube_apply_move_mut(cube, mv) ==
    [cube EXCEPT !.stickers =
        [k \in 1..Len(cube.stickers) |->
            <<Sticker_rotate(cube.size, cube.stickers[k][1],
                             [GeometricMove_from(cube.size, mv)
                                 EXCEPT !.layers = cube.size + 1]),
              cube.stickers[k][2]>>]]

GeoCube_apply_move(cube, mv) ==
    [cube EXCEPT !.stickers =
        [k \in 1..Len(cube.stickers) |->
            <<Sticker_rotate(cube.size, cube.stickers[k][1],
                             GeometricMove_from(cube.size, mv)),
              cube.stickers[k][2]>>]]

\* Cube::apply_moves for the geometric form: clone, then fold left to right.
RECURSIVE GeoCube_apply_moves(_, _)
GeoCube_apply_moves(cube, mvs) ==
    IF mvs = <<>> THEN cube
    ELSE GeoCube_apply_moves(GeoCube_apply_move(cube, Head(mvs)), Tail(mvs))

\* The sort key of top_layer_stickers: (current.z, current.x).
KeyLeq(a, b) ==
    \/ a[1].current[3] < b[1].current[3]
    \/ /\ a[1].current[3] = b[1].current[3]
       /\ a[1].current[1] <= b[1].current[1]

\* sort_by_key is a stable sort: an element goes behind its equals.
RECURSIVE InsertByKey(_, _)
InsertByKey(sorted, e) ==
    IF sorted = <<>> THEN <<e>>
    ELSE IF KeyLeq(Head(sorted), e)
         THEN <<Head(sorted)>> \o InsertByKey(Tail(sorted), e)
         ELSE <<e>> \o sorted

RECURSIVE SortByKey(_)
SortByKey(s) ==
    IF s = <<>> THEN <<>>
    ELSE InsertByKey(SortByKey(SubSeq(s, 1, Len(s) - 1)), s[Len(s)])

top_layer_stickers(cube) ==
    LET OnTop(e) == current_face(cube.size, e[1]) = "U"
    IN SortByKey(SelectSeq(cube.stickers, OnTop))

RECURSIVE Flatten(_)
Flatten(ss) == IF ss = <<>> THEN <<>> ELSE Head(ss) \o Flatten(Tail(ss))

GeoCube_state_mut(cube) ==
    Flatten([f \in 1..6 |->
        LET rotated_cube == GeoCube_apply_moves(cube, FACE_ROTATING_MOVES[f])
            top == top_layer_stickers(rotated_cube)
        IN [k \in 1..Len(top) |-> current_face(cube.size, top[k][1])]])

GeoCube_state(cube) ==
    Flatten([f \in 1..6 |->
        LET rotated_cube == GeoCube_apply_moves(cube, FACE_ROTATING_MOVES[f])
            top == top_layer_stickers(rotated_cube)
        IN [k \in 1..Len(top) |-> initial_face(top[k][1])]])

set_sticker_initial_index_mut(sz, stickers) ==
    LET cube == [size |-> sz, stickers |-> stickers]
    IN Flatten([f \in 1..6 |->
        LET rotated_cube == GeoCube_apply_moves(cube, FACE_ROTATING_MOVES[f])
            top == top_layer_stickers(rotated_cube)
        IN [k \in 1..Len(top) |-> <<top[k][1], f - 1>>]])

set_sticker_initial_index(sz, stickers) ==
    LET cube == [size |-> sz, stickers |-> stickers]
    IN Flatten([f \in 1..6 |->
        LET rotated_cube == GeoCube_apply_moves(cube, FACE_ROTATING_MOVES[f])
            top == top_layer_stickers(rotated_cube)
        IN [k \in 1..Len(top) |-> <<set_solved(top[k][1]), f - 1>>]])

\* for face in [-size, size] { for p1 in range { for p2 in range { push x3 } } }
generate_stickers(sz) ==
    LET r == range(sz)
        n == Len(r)
        At(k) ==
            LET t == (k - 1) % 3
                q == (k - 1) \div 3
                p2 == r[(q % n) + 1]
                p1 == r[((q \div n) % n) + 1]
                face == IF q \div (n * n) = 0 THEN -sz ELSE sz
            IN CASE t = 0 -> <<Sticker_new(sz, face, p1, p2), -1>>
                 [] t = 1 -> <<Sticker_new(sz, p1, face, p2), -1>>
                 [] t = 2 -> <<Sticker_new(sz, p1, p2, face), -1>>
    IN set_sticker_initial_index(sz, [k \in 1..(6 * n * n) |-> At(k)])

GeoCube_new(sz) == [size |-> sz, stickers |-> generate_stickers(sz)]

GeoCube_size(cube) == cube.size

\* mask is the closure handed in: a function of (index, face).
GeoCube_mask(cube, mask) ==
    [cube EXCEPT !.stickers =
        [k \in 1..Len(cube.stickers) |->
            <<[cube.stickers[k][1] EXCEPT
                  !.face = mask[cube.stickers[k][2], initial_face(cube.stickers[k][1])]],
              cube.stickers[k][2]>>]]

(***************************************************************************)
(* The moves of a cube of a given size: the six single-layer turns, the    *)
(* wide turns of 1..size outer layers, the three whole-cube rotations,     *)
(* each in the three variants.                                             *)
(***************************************************************************)
MoveFamilies(sz) ==
    {<<nm, 0>> : nm \in FaceMoveNames \cup RotationMoveNames}
        \cup {<<nm, n>> : nm \in WideMoveNames, n \in 1..sz}

Moves(sz) == {Mv(fam[1], fam[2], v) : fam \in MoveFamilies(sz), v \in MoveVariant}

(***************************************************************************)
(* facelet_cube: the per-move index permutation.  For a size and a move    *)
(* family it is read off the geometric form once: the solved GeoCube is    *)
(* turned by the family's Standard move, and entry d names the position    *)
(* whose sticker arrives at position d.  Positions are the 1-based places  *)
(* of state().                                                             *)
(***************************************************************************)
IndexMap(sz, fam) ==
    LET solved == GeoCube_new(sz)
        moved == GeoCube_apply_move(solved, Mv(fam[1], fam[2], "Standard"))
        n == Len(solved.stickers)
    IN [d \in 1..n |->
          CHOOSE h \in 1..n :
              moved.stickers[h][1].current = solved.stickers[d][1].current]

\* The memoized tables, one per (size, move family).
PermutationTable ==
    [sz \in 1..MaxSize |-> [fam \in MoveFamilies(sz) |-> IndexMap(sz, fam)]]

ApplyIndexMap(faces, map) == [d \in 1..Len(faces) |-> faces[map[d]]]

RECURSIVE ApplyIndexMapTimes(_, _, _)
ApplyIndexMapTimes(faces, map, k) ==
    IF k = 0 THEN faces
    ELSE ApplyIndexMapTimes(ApplyIndexMap(faces, map), map, k - 1)

compute_permutation_mut(faces, sz, mv) ==
    ApplyIndexMapTimes(faces, PermutationTable[sz][<<mv.name, mv.n>>],
                       IF mv.variant = "Inverse" THEN 1 ELSE VariantTurns(mv.variant))

\* compute_permutation(&faces, size, mv): Double and Inverse are the
\* Standard permutation composed two and three times.
compute_permutation(faces, sz, mv) ==
    ApplyIndexMapTimes(faces, PermutationTable[sz][<<mv.name, mv.n>>],
                       VariantTurns(mv.variant))

(***************************************************************************)
(* facelet_cube/cube.rs: FaceletCube.  A cube is [size, faces], faces a    *)
(* sequence of <<Face, home index>> pairs.                                 *)
(***************************************************************************)
repeat(element, count) == [k \in 1..count |-> element]

FaceletCube_new_mut(sz) ==
    LET labels == repeat("U", sz * sz) \o repeat("R", sz * sz)
                    \o repeat("F", sz * sz) \o repeat("L", sz * sz)
                    \o repeat("D", sz * sz) \o repeat("B", sz * sz)
    IN [size |-> sz,
        faces |-> [k \in 1..Len(labels) |-> <<labels[k], (k - 1) % 65536>>]]

FaceletCube_new(sz) ==
    LET labels == repeat("U", sz * sz) \o repeat("R", sz * sz)
                    \o repeat("F", sz * sz) \o repeat("D", sz * sz)
                    \o repeat("L", sz * sz) \o repeat("B", sz * sz)
    IN [size |-> sz,
        faces |-> [k \in 1..Len(labels) |-> <<labels[k], (k - 1) % 65536>>]]

FaceletCube_size(cube) == cube.size

FaceletCube_state(cube) == [k \in 1..Len(cube.faces) |-> cube.faces[k][1]]

\* mask is the closure handed in: a function of (index, face).
FaceletCube_mask(cube, mask) ==
    [cube EXCEPT !.faces =
        [k \in 1..Len(cube.faces) |->
            <<mask[cube.faces[k][2], cube.faces[k][1]], cube.faces[k][2]>>]]

FaceletCube_apply_move_mut(cube, mv) ==
    [size |-> cube.size,
     faces |-> compute_permutation(cube.faces, cube.size, with_variant(mv, "Standard"))]

FaceletCube_apply_move(cube, mv) ==
    [size |-> cube.size, faces |-> compute_permutation(cube.faces, cube.size, mv)]

RECURSIVE FaceletCube_apply_moves_mut(_, _)
FaceletCube_apply_moves_mut(cube, mvs) ==
    IF mvs = <<>> THEN cube
    ELSE FaceletCube_apply_move(FaceletCube_apply_moves_mut(cube, Tail(mvs)), Head(mvs))

\* Cube::apply_moves for the array form: clone, then fold left to right.
RECURSIVE FaceletCube_apply_moves(_, _)
FaceletCube_apply_moves(cube, mvs) ==
    IF mvs = <<>> THEN cube
    ELSE FaceletCube_apply_moves(FaceletCube_apply_move(cube, Head(mvs)), Tail(mvs))

(***************************************************************************)
(* The projectors handed to mask in the model.  "cross" is the mask of     *)
(* the Cube::mask doc example; sticker_index is generic_cube.rs's.         *)
(***************************************************************************)
FacePosition(face) == CHOOSE p \in 0..5 : ORDERED_FACES[p + 1] = face

sticker_index(sz, face, index) == FacePosition(face) * sz * sz + index - 1

Projectors == {"blank", "cross", "last", "poles"}

Project(id, sz, i, f) ==
    CASE id = "blank" -> "X"
      [] id = "cross" ->
            IF i \in {sticker_index(sz, "D", k) : k \in {2, 4, 6, 8}} THEN f ELSE "X"
      [] id = "last" -> IF i = 6 * sz * sz - 1 THEN f ELSE "X"
      [] id = "poles" -> IF f \in {"U", "D"} THEN f ELSE "X"

(***************************************************************************)
(* A session with the library: a cube of each form is created solved, and  *)
(* apply_move, apply_moves and mask are called on the cubes held.  A call  *)
(* takes the receiver by shared reference and returns a new value (ret),   *)
(* which the caller may then bind in place of the receiver, as             *)
(* the loop of apply_moves does with `cube = cube.apply_move(mv)`.         *)
(***************************************************************************)
NoRet == [op |-> "none", arg |-> <<>>, facelet |-> <<>>, geo |-> <<>>]

NoMoves == <<>>

NoFrame == [call |-> "none"]

\* Option<T>: None, or Some(x).
None == <<>>

Some(x) == <<x>>

OpsDone == Len(history) + masked

\* The move sequences handed to apply_moves: the empty one and the
\* reorientations the crate itself applies.
MoveSequences == Range(FACE_ROTATING_MOVES)

InitCube ==
    /\ size \in 1..MaxSize
    /\ facelet = FaceletCube_new(size)
    /\ geo = GeoCube_new(size)
    /\ history = <<>>
    /\ masked = 0
    /\ ret = NoRet
    /\ pc = "session"
    /\ input = NoMoves
    /\ output = NoMoves
    /\ frame = NoFrame

apply_move_call_mut(mv) ==
    /\ ret.op = "none"
    /\ OpsDone < MaxHistory
    /\ ret' = [op |-> "apply_move", arg |-> <<mv>>,
               facelet |-> FaceletCube_apply_move(facelet, mv),
               geo |-> GeoCube_apply_move(geo, mv)]
    /\ facelet' = FaceletCube_apply_move(facelet, mv)
    /\ geo' = GeoCube_apply_move(geo, mv)
    /\ UNCHANGED <<frame, size, history, masked, pc, input, output>>

apply_move_call(mv) ==
    /\ ret.op = "none"
    /\ OpsDone < MaxHistory
    /\ ret' = [op |-> "apply_move", arg |-> <<mv>>,
               facelet |-> FaceletCube_apply_move(facelet, mv),
               geo |-> GeoCube_apply_move(geo, mv)]
    /\ UNCHANGED <<frame, size, facelet, geo, history, masked, pc, input, output>>

apply_moves_call(mvs) ==
    /\ ret.op = "none"
    /\ OpsDone < MaxHistory
    /\ OpsDone + Len(mvs) <= MaxHistory
    /\ ret' = [op |-> "apply_moves", arg |-> mvs,
               facelet |-> FaceletCube_apply_moves(facelet, mvs),
               geo |-> GeoCube_apply_moves(geo, mvs)]
    /\ UNCHANGED <<frame, size, facelet, geo, history, masked, pc, input, output>>

mask_call(id) ==
    /\ ret.op = "none"
    /\ OpsDone < MaxHistory
    /\ LET mask == [i \in 0..(6 * size * size - 1), f \in Face |->
                        Project(id, size, i, f)]
       IN ret' = [op |-> "mask", arg |-> id,
                  facelet |-> FaceletCube_mask(facelet, mask),
                  geo |-> GeoCube_mask(geo, mask)]
    /\ UNCHANGED <<frame, size, facelet, geo, history, masked, pc, input, output>>

\* The caller binds the returned cubes in place of the receivers.
Bind ==
    /\ ret.op # "none"
    /\ facelet' = ret.facelet
    /\ geo' = ret.geo
    /\ history' = IF ret.op = "mask" THEN history ELSE history \o ret.arg
    /\ masked' = IF ret.op = "mask" THEN masked + 1 ELSE masked
    /\ ret' = NoRet
    /\ UNCHANGED <<frame, size, pc, input, output>>

NextCube ==
    \/ \E mv \in Moves(size) : apply_move_call(mv)
    \/ \E mvs \in MoveSequences : apply_moves_call(mvs)
    \/ \E id \in Projectors : mask_call(id)
    \/ Bind

SpecCube == InitCube /\ [][NextCube]_vars

(***************************************************************************)
(* facelet_cube/cube.rs: From<Vec<Face>> and From<GeoCube> for             *)
(* FaceletCube, and a session that also converts.                          *)
(***************************************************************************)
\* (n as f64).sqrt() as CubeSize: the square root, cut to an integer.
sqrt(n) == CHOOSE r \in 0..n : r * r <= n /\ n < (r + 1) * (r + 1)

FaceletCube_from(faces) ==
    [size |-> sqrt(Len(faces) \div 6),
     faces |-> [k \in 1..Len(faces) |-> <<faces[k], 0>>]]

FaceletCube_from_GeoCube(geo_cube) == FaceletCube_from(GeoCube_state(geo_cube))

\* FaceletCube::from(faces): the caller passes the state() of the cube it
\* holds.
from_faces_call(faces) ==
    /\ ret.op = "none"
    /\ ret' = [op |-> "from", arg |-> <<>>,
               facelet |-> FaceletCube_from(faces), geo |-> geo]
    /\ UNCHANGED <<frame, size, facelet, geo, history, masked, pc, input, output>>

\* FaceletCube::from(geo_cube), on the geometric cube the session holds.
from_geo_call ==
    /\ ret.op = "none"
    /\ ret' = [op |-> "from", arg |-> <<>>,
               facelet |-> FaceletCube_from_GeoCube(geo), geo |-> geo]
    /\ UNCHANGED <<frame, size, facelet, geo, history, masked, pc, input, output>>

NextConvert ==
    \/ \E mv \in Moves(size) : apply_move_call(mv)
    \/ \E mvs \in MoveSequences : apply_moves_call(mvs)
    \/ \E id \in Projectors : mask_call(id)
    \/ \E faces \in {FaceletCube_state(facelet)} : from_faces_call(faces)
    \/ from_geo_call
    \/ Bind

SpecConvert == InitCube /\ [][NextConvert]_vars

\* The home indices a FaceletCube carries are pairwise distinct and are
\* the numbers 0..6*N*N-1.
HomeIndicesArePermutation(cube) ==
    /\ Len(cube.faces) = 6 * cube.size * cube.size
    /\ {cube.faces[k][2] : k \in 1..Len(cube.faces)} = 0..(6 * cube.size * cube.size - 1)

\* C26: in every FaceletCube obtained through new, From<Vec<Face>>,
\* From<GeoCube>, apply_move, apply_moves and mask, the home indices of the
\* stickers are pairwise distinct and form a permutation of 0..6*N*N-1.
C26_HomeIndicesDistinct ==
    /\ HomeIndicesArePermutation(facelet)
    /\ ret.op # "none" => HomeIndicesArePermutation(ret.facelet)

(***************************************************************************)
(* Properties of the cube forms, checked under SpecCube.                   *)
(***************************************************************************)
\* new(N) in both forms, for the sizes of the model.
NewCubes ==
    [sz \in 1..MaxSize |-> [facelet |-> FaceletCube_new(sz), geo |-> GeoCube_new(sz)]]

\* new(N).state() in both forms.
NewStates ==
    [sz \in 1..MaxSize |->
        [facelet |-> FaceletCube_state(FaceletCube_new(sz)),
         geo |-> GeoCube_state(GeoCube_new(sz))]]

invert(mv) ==
    with_variant(mv, CASE mv.variant = "Standard" -> "Inverse"
                       [] mv.variant = "Inverse" -> "Standard"
                       [] mv.variant = "Double" -> "Double")

InverseSequence(m) == Reverse([k \in 1..Len(m) |-> invert(m[k])])

\* C1: applying a move sequence m to new(N) and then the reversed sequence
\* of the inverted moves of m gives a cube whose state() is new(N).state(),
\* in the array form and in the geometric form; m is the session's history.
C1_InverseRoundTrip ==
    ret.op = "none" =>
        /\ FaceletCube_state(
              FaceletCube_apply_moves(
                  FaceletCube_apply_moves(NewCubes[size].facelet, history),
                  InverseSequence(history)))
             = NewStates[size].facelet
        /\ GeoCube_state(
              GeoCube_apply_moves(
                  GeoCube_apply_moves(NewCubes[size].geo, history),
                  InverseSequence(history)))
             = NewStates[size].geo

\* A history of two moves of different families that leaves the cube
\* scrambled and that reads differently when reversed and inverted.
C1_Witness ==
    /\ Len(history) = 2
    /\ history[1].name # history[2].name
    /\ InverseSequence(history) # history
    /\ masked = 0
    /\ ret.op = "none"
    /\ ~is_solved(size, FaceletCube_state(facelet))

\* C2: after the same move sequence (single-layer, wide and whole-cube
\* moves) from the solved cube, the array form's state() equals the
\* geometric form's state().
C2_FormsAgree ==
    (masked = 0 /\ ret.op = "none") =>
        FaceletCube_state(facelet) = GeoCube_state(geo)

\* Both forms hold a cube turned by a wide move and then a single-layer
\* move, and it is not solved.
C2_Witness ==
    /\ masked = 0
    /\ Len(history) = 2
    /\ history[1].name \in WideMoveNames
    /\ history[2].name \in FaceMoveNames
    /\ size = 3
    /\ ~is_solved(size, GeoCube_state(geo))

\* C5: apply_move, apply_moves and mask return a new value and leave the
\* receiver unchanged: over every call, each receiver is the same value
\* before and after, so its size(), its state() and (array form) its home
\* indices are the same.
C5_ReceiverUnchanged ==
    [][(ret.op = "none" /\ ret'.op # "none") =>
          /\ FaceletCube_size(facelet') = FaceletCube_size(facelet)
          /\ facelet'.faces = facelet.faces
          /\ GeoCube_size(geo') = GeoCube_size(geo)
          /\ geo'.stickers = geo.stickers]_vars

\* A call has returned a cube whose state differs from its receiver's.
C5_Witness ==
    /\ ret.op # "none"
    /\ Len(history) >= 1
    /\ FaceletCube_state(ret.facelet) # FaceletCube_state(facelet)
    /\ GeoCube_state(ret.geo) # GeoCube_state(geo)

BlocksInOrder(sz, st) ==
    \A b \in 0..5 : \A j \in 1..(sz * sz) :
        st[b * sz * sz + j] = <<"U", "R", "F", "D", "L", "B">>[b + 1]

ShapeOk(sz, cubeSize, st) == cubeSize = sz /\ Len(st) = 6 * sz * sz

\* C6: every cube obtained from new(N) by apply_move, apply_moves and mask
\* calls has size() = N and a state() of exactly 6*N*N entries; the state
\* of new(N) is six consecutive N*N blocks labelled U, R, F, D, L, B.
C6_StateShape ==
    /\ ret.op = "none" =>
          /\ ShapeOk(size, FaceletCube_size(facelet), FaceletCube_state(facelet))
          /\ ShapeOk(size, GeoCube_size(geo), GeoCube_state(geo))
    /\ ret.op # "none" =>
          /\ ShapeOk(size, FaceletCube_size(ret.facelet), FaceletCube_state(ret.facelet))
          /\ ShapeOk(size, GeoCube_size(ret.geo), GeoCube_state(ret.geo))
    /\ BlocksInOrder(size, NewStates[size].facelet)
    /\ BlocksInOrder(size, NewStates[size].geo)

\* A cube reached through a move and a mask, on the largest size.
C6_Witness ==
    /\ size = 3
    /\ Len(history) = 1
    /\ masked = 1
    /\ ret.op = "none"
    /\ FaceletCube_state(facelet) # NewStates[size].facelet

\* C7: for every size N >= 1, new(N).is_solved() is true, in the array form
\* and in the geometric form.
C7_NewIsSolved ==
    /\ is_solved(FaceletCube_size(NewCubes[size].facelet), NewStates[size].facelet)
    /\ is_solved(GeoCube_size(NewCubes[size].geo), NewStates[size].geo)

\* The session holds the freshly created cubes of size 3, and they are solved.
C7_Witness ==
    /\ size = 3
    /\ history = <<>>
    /\ masked = 0
    /\ facelet = FaceletCube_new(3)
    /\ geo = GeoCube_new(3)
    /\ is_solved(size, GeoCube_state(geo))

BlockLabels(sz, st, b) == {st[b * sz * sz + j] : j \in 1..(sz * sz)}

UniformBlocks(sz, st) == \A b \in 0..5 : Cardinality(BlockLabels(sz, st, b)) = 1

\* A renaming of the face labels that maps no two labels to one.
Relabel(st) ==
    [k \in 1..Len(st) |->
        CASE st[k] = "U" -> "R" [] st[k] = "R" -> "F" [] st[k] = "F" -> "D"
          [] st[k] = "D" -> "L" [] st[k] = "L" -> "B" [] st[k] = "B" -> "X"
          [] st[k] = "X" -> "U"]

IsSolvedIffUniform(sz, st) ==
    /\ is_solved(sz, st) <=> UniformBlocks(sz, st)
    /\ is_solved(sz, Relabel(st)) <=> is_solved(sz, st)

\* C8: is_solved() is true exactly when each of the six consecutive N*N
\* blocks of state() holds one repeated label, whichever label that is.
C8_IsSolvedIffUniform ==
    ret.op = "none" =>
        /\ IsSolvedIffUniform(size, FaceletCube_state(facelet))
        /\ IsSolvedIffUniform(size, GeoCube_state(geo))

\* A turned cube that is_solved() although its state is not the solved
\* state: its blocks are uniform and carry other labels.
C8_Witness ==
    /\ is_solved(size, FaceletCube_state(facelet))
    /\ FaceletCube_state(facelet) # solved_state(size)
    /\ Len(history) >= 1
    /\ size >= 2

\* C19: mask(projector) returns, in both forms, a cube in which each
\* sticker's face label is projector(h, f), h being the sticker's home
\* index (its position in the solved state) and f its current face label;
\* so the two forms' masked states are equal.
C19_MaskByHomeIndex ==
    (ret.op = "mask" /\ masked = 0) =>
        LET expected == [k \in 1..Len(facelet.faces) |->
                            Project(ret.arg, size, facelet.faces[k][2],
                                    facelet.faces[k][1])]
        IN /\ FaceletCube_state(ret.facelet) = expected
           /\ GeoCube_state(ret.geo) = expected

\* The moves and the sequences the fold law is tried with on each cube.
FoldMoves == {Mv("R", 0, "Standard"), Mv("U", 0, "Inverse"), Mv("Fw", 1, "Double")}

FoldSequences == {<<>>} \cup {<<m>> : m \in FoldMoves}

\* C20: apply_moves folds left to right.  For every cube c a session holds,
\* in both forms, and sequences a and b: c.apply_moves(a ++ b) equals
\* c.apply_moves(a).apply_moves(b), c.apply_moves([m]) equals
\* c.apply_move(m), and c.apply_moves([]) equals c.
C20_ApplyMovesFolds ==
    ret.op = "none" =>
        /\ \A a \in FoldSequences, b \in FoldSequences :
              /\ FaceletCube_apply_moves(facelet, a \o b)
                    = FaceletCube_apply_moves(FaceletCube_apply_moves(facelet, a), b)
              /\ GeoCube_apply_moves(geo, a \o b)
                    = GeoCube_apply_moves(GeoCube_apply_moves(geo, a), b)
        /\ \A m \in FoldMoves :
              /\ FaceletCube_apply_moves(facelet, <<m>>) = FaceletCube_apply_move(facelet, m)
              /\ GeoCube_apply_moves(geo, <<m>>) = GeoCube_apply_move(geo, m)
        /\ FaceletCube_apply_moves(facelet, <<>>) = facelet
        /\ GeoCube_apply_moves(geo, <<>>) = geo

\* A turned 3x3x3 cube on which the order of two moves matters: R then U'
\* and U' then R give different cubes, and neither gives the cube back.
C20_Witness ==
    /\ ret.op = "none"
    /\ size = 3
    /\ Len(history) = 2
    /\ LET a == <<Mv("R", 0, "Standard")>>
           b == <<Mv("U", 0, "Inverse")>>
       IN /\ FaceletCube_apply_moves(facelet, a \o b) # FaceletCube_apply_moves(facelet, b \o a)
          /\ FaceletCube_apply_moves(facelet, a \o b) # facelet
          /\ GeoCube_apply_moves(geo, a \o b) # GeoCube_apply_moves(geo, b \o a)

\* C21: the variants of a move family act as the cyclic group of order 4.
\* Whenever apply_move has turned a cube by a move of some family, in
\* either form: the Standard move gives what one quarter turn gives, the
\* Double move what the Standard move applied twice gives, the Inverse move
\* what the Standard move applied three times gives, and the Standard move
\* applied four times gives the receiver back.
C21_VariantsCyclic ==
    ret.op = "apply_move" =>
        LET mv == ret.arg[1]
            standard == with_variant(mv, "Standard")
            f1 == FaceletCube_apply_move(facelet, standard)
            f2 == FaceletCube_apply_move(f1, standard)
            f3 == FaceletCube_apply_move(f2, standard)
            g1 == GeoCube_apply_move(geo, standard)
            g2 == GeoCube_apply_move(g1, standard)
            g3 == GeoCube_apply_move(g2, standard)
        IN /\ mv.variant = "Standard" => ret.facelet = f1 /\ ret.geo = g1
           /\ mv.variant = "Double" => ret.facelet = f2 /\ ret.geo = g2
           /\ mv.variant = "Inverse" => ret.facelet = f3 /\ ret.geo = g3
           /\ FaceletCube_apply_move(f3, standard) = facelet
           /\ GeoCube_apply_move(g3, standard) = geo

\* An Inverse wide move has turned a 3x3x3 cube that was already turned,
\* and the cube it returns differs from the receiver and from what the
\* Standard move gives.
C21_Witness ==
    /\ ret.op = "apply_move"
    /\ ret.arg[1].variant = "Inverse"
    /\ ret.arg[1].name \in WideMoveNames
    /\ size = 3
    /\ Len(history) = 1
    /\ ret.facelet # facelet
    /\ ret.facelet # FaceletCube_apply_move(facelet, with_variant(ret.arg[1], "Standard"))
    /\ ret.geo # geo

\* The place d of state() lies in the layers the move turns: the sticker
\* that the solved cube has at that place is one the move's predicate takes.
InAffectedLayers(sz, mv, d) ==
    predicate(sz, GeometricMove_from(sz, mv), NewCubes[sz].geo.stickers[d][1])

\* The places of state() that a single-layer U turn leaves alone, counted
\* off the blocks: the D block and all rows but the first of the R, F, L
\* and B blocks.
BelowTopLayer(sz) ==
    {sticker_index(sz, "D", j) + 1 : j \in 1..(sz * sz)}
        \cup {sticker_index(sz, f, j) + 1 :
                 f \in {"R", "F", "L", "B"}, j \in (sz + 1)..(sz * sz)}

\* C24: the frame of a move.  When apply_move has turned a cube by a
\* single-layer or wide face turn, every place of state() outside the
\* move's layers holds the sticker it held before, in both forms (the array
\* form's home index included); for a single-layer U turn these places are
\* the D block and the lower rows of the R, F, L and B blocks.
C24_MoveFrame ==
    (ret.op = "apply_move" /\ ret.arg[1].name \in FaceMoveNames \cup WideMoveNames) =>
        LET mv == ret.arg[1]
        IN /\ \A states \in {<<GeoCube_state(geo), GeoCube_state(ret.geo)>>} :
                 \A d \in 1..(6 * size * size) :
                    ~InAffectedLayers(size, mv, d) =>
                       /\ ret.facelet.faces[d] = facelet.faces[d]
                       /\ states[2][d] = states[1][d]
           /\ mv.name = "U" =>
                 /\ \A d \in BelowTopLayer(size) : ~InAffectedLayers(size, mv, d)
                 /\ \A d \in 1..(6 * size * size) :
                       d \notin BelowTopLayer(size) => InAffectedLayers(size, mv, d)

\* The doc example: U(Standard) has turned the solved 3x3x3 cube.  The U
\* and D blocks and the lower two rows of the side blocks read as before,
\* and the first rows of the side blocks have changed.
C24_Witness ==
    /\ ret.op = "apply_move"
    /\ ret.arg = <<Mv("U", 0, "Standard")>>
    /\ size = 3
    /\ history = <<>>
    /\ masked = 0
    /\ FaceletCube_state(ret.facelet) =
          <<"U", "U", "U", "U", "U", "U", "U", "U", "U",
            "B", "B", "B", "R", "R", "R", "R", "R", "R",
            "R", "R", "R", "F", "F", "F", "F", "F", "F",
            "D", "D", "D", "D", "D", "D", "D", "D", "D",
            "F", "F", "F", "L", "L", "L", "L", "L", "L",
            "L", "L", "L", "B", "B", "B", "B", "B", "B">>
    /\ GeoCube_state(ret.geo) = FaceletCube_state(ret.facelet)

(***************************************************************************)
(* scramble_parser.rs: simplify_moves.  A Movement is [mv, total_turns];   *)
(* an Option is the empty sequence (None) or a one-element sequence.       *)
(***************************************************************************)
Movement(mv) == [mv |-> mv, total_turns |-> VariantTurns(get_variant(mv)) % 256]

movement_to_move(m) ==
    CASE m.total_turns % 4 = 1 -> <<with_variant(m.mv, "Standard")>>
      [] m.total_turns % 4 = 2 -> <<with_variant(m.mv, "Double")>>
      [] m.total_turns % 4 = 3 -> <<with_variant(m.mv, "Inverse")>>
      [] OTHER -> <<>>

\* The loop over moves[1..]: rest is what is left of the slice, movement
\* and result are the loop's two mutable locals; the value is result after
\* the push that follows the loop.
RECURSIVE merge_adjacent(_, _, _)
merge_adjacent(rest, movement, result) ==
    IF rest = <<>> THEN result \o movement_to_move(movement)
    ELSE LET mv == Head(rest)
         IN IF discriminant(movement.mv) = discriminant(mv)
            THEN merge_adjacent(
                     Tail(rest),
                     [movement EXCEPT !.total_turns =
                         ((@ + VariantTurns(get_variant(mv))) % 256) % 4],
                     result)
            ELSE merge_adjacent(Tail(rest), Movement(mv),
                                result \o movement_to_move(movement))

simplify_moves_mut(moves) ==
    IF moves = <<>> THEN <<>>
    ELSE merge_adjacent(Tail(moves), Movement(Head(moves)), <<>>)

RECURSIVE simplify_moves(_)
simplify_moves(moves) ==
    IF moves = <<>> THEN <<>>
    ELSE LET result == merge_adjacent(Tail(moves), Movement(Head(moves)), <<>>)
         IN IF Len(result) = Len(moves) THEN result ELSE simplify_moves(result)

(***************************************************************************)
(* A caller of simplify_moves: it builds a move sequence one move at a     *)
(* time and hands it to simplify_moves.                                    *)
(***************************************************************************)
\* The moves the caller draws from: two single-layer families and one
\* wide face with two layer counts, in every variant.
SimplifyAlphabet ==
    {Mv(name, 0, v) : name \in {"R", "U"}, v \in MoveVariant}
        \cup {Mv("Uw", n, v) : n \in {2, 3}, v \in MoveVariant}

InitSimplify ==
    /\ size = MaxSize
    /\ facelet = FaceletCube_new(size)
    /\ geo = GeoCube_new(size)
    /\ history = <<>>
    /\ masked = 0
    /\ ret = NoRet
    /\ pc = "building"
    /\ input = NoMoves
    /\ output = NoMoves
    /\ frame = NoFrame

push_move(mv) ==
    /\ pc = "building"
    /\ Len(input) < MaxSimplifyLen
    /\ input' = Append(input, mv)
    /\ UNCHANGED <<frame, size, facelet, geo, history, masked, ret, pc, output>>

simplify_call ==
    /\ pc = "building"
    /\ output' = simplify_moves(input)
    /\ pc' = "simplified"
    /\ UNCHANGED <<frame, size, facelet, geo, history, masked, ret, input>>

NextSimplify ==
    \/ \E mv \in SimplifyAlphabet : push_move(mv)
    \/ simplify_call

SpecSimplify == InitSimplify /\ [][NextSimplify]_vars

(***************************************************************************)
(* Properties of simplify_moves, checked under SpecSimplify.               *)
(***************************************************************************)
\* Two moves simplify_moves would merge when adjacent.
WouldMerge(a, b) == simplify_moves(<<a, b>>) # <<a, b>>

\* C9: simplify_moves is idempotent: simplifying its output gives the
\* output again, and the output holds no two adjacent moves that
\* simplify_moves would merge.
C9_SimplifyIdempotent ==
    pc = "simplified" =>
        /\ simplify_moves(output) = output
        /\ \A k \in 1..(Len(output) - 1) : ~WouldMerge(output[k], output[k + 1])

\* A sequence of four moves whose simplification takes more than one pass:
\* merging the inner pair brings the outer pair together.
C9_Witness ==
    /\ pc = "simplified"
    /\ Len(input) = 4
    /\ input[1].name # input[2].name
    /\ input[2].name = input[3].name
    /\ input[1].name = input[4].name
    /\ output = <<>>

\* Two moves of the same family: they differ only in variant.
SameFamily(a, b) == a.name = b.name /\ a.n = b.n

\* C10: simplify_moves merges two adjacent moves only when they are of the
\* same family: an input in which no two adjacent moves are of the same
\* family (such as Uw(2, Standard), Uw(3, Standard)) is returned unchanged.
C10_MergesOnlySameFamily ==
    (pc = "simplified"
        /\ \A k \in 1..(Len(input) - 1) : ~SameFamily(input[k], input[k + 1]))
    => output = input

\* The variant of a number of quarter turns: the empty sequence when the
\* turns cancel.
TurnsToMove(mv, turns) ==
    CASE turns % 4 = 1 -> <<Mv(mv.name, mv.n, "Standard")>>
      [] turns % 4 = 2 -> <<Mv(mv.name, mv.n, "Double")>>
      [] turns % 4 = 3 -> <<Mv(mv.name, mv.n, "Inverse")>>
      [] turns % 4 = 0 -> <<>>

\* The length of the maximal run of moves of s's first move's family that
\* s starts with, and the quarter turns of that run.
RECURSIVE RunLength(_)
RunLength(s) ==
    IF Len(s) >= 2 /\ SameFamily(s[1], s[2]) THEN 1 + RunLength(Tail(s)) ELSE 1

RECURSIVE SumTurns(_)
SumTurns(s) == IF s = <<>> THEN 0 ELSE VariantTurns(s[1].variant) + SumTurns(Tail(s))

\* Every maximal run of same-family moves replaced by its single move.
RECURSIVE CollapseRuns(_)
CollapseRuns(s) ==
    IF s = <<>> THEN <<>>
    ELSE LET k == RunLength(s)
         IN TurnsToMove(s[1], SumTurns(SubSeq(s, 1, k)))
                \o CollapseRuns(SubSeq(s, k + 1, Len(s)))

\* ... repeated until nothing merges.
RECURSIVE CollapseUntilStable(_)
CollapseUntilStable(s) ==
    LET t == CollapseRuns(s) IN IF t = s THEN s ELSE CollapseUntilStable(t)

\* C11: simplify_moves replaces every maximal run of adjacent same-family
\* moves by the one move of that family whose variant is the sum of the
\* run's turns mod 4, drops the run when the sum is 0 mod 4, and repeats
\* until nothing merges (so R R R R gives [] and R R gives [R2]).
C11_RunCollapse ==
    pc = "simplified" => output = CollapseUntilStable(input)

\* C25: simplify_moves keeps the effect on the cube.  When simplify_moves
\* has returned, the sequence it was given and the sequence it returned,
\* applied to the solved cube of the largest size, give equal state(), in
\* both forms.
C25_SimplifyKeepsEffect ==
    pc = "simplified" =>
        /\ FaceletCube_state(FaceletCube_apply_moves(NewCubes[MaxSize].facelet, output))
              = FaceletCube_state(FaceletCube_apply_moves(NewCubes[MaxSize].facelet, input))
        /\ GeoCube_state(GeoCube_apply_moves(NewCubes[MaxSize].geo, output))
              = GeoCube_state(GeoCube_apply_moves(NewCubes[MaxSize].geo, input))

(***************************************************************************)
(* generic_cube.rs: Display for Move and MoveVariant.  A text is a         *)
(* sequence of one-character strings.                                      *)
(***************************************************************************)
Digits == <<"0", "1", "2", "3", "4", "5", "6", "7", "8", "9">>

\* format!("{n}") of a layer count n >= 0.
RECURSIVE ToDecimal(_)
ToDecimal(n) ==
    IF n < 10 THEN <<Digits[n + 1]>>
    ELSE ToDecimal(n \div 10) \o <<Digits[(n % 10) + 1]>>

\* The text of an enum variant's name ("U", "Uw", "X"), one character each.
NameText(name) ==
    CASE name = "Uw" -> <<"U", "w">>
      [] name = "Lw" -> <<"L", "w">>
      [] name = "Fw" -> <<"F", "w">>
      [] name = "Rw" -> <<"R", "w">>
      [] name = "Bw" -> <<"B", "w">>
      [] name = "Dw" -> <<"D", "w">>
      [] OTHER -> <<name>>

get_move_name(mv) ==
    IF mv.name \in WideMoveNames
    THEN IF mv.n = 2 THEN NameText(mv.name) ELSE ToDecimal(mv.n) \o NameText(mv.name)
    ELSE NameText(mv.name)

MoveVariant_fmt(v) ==
    CASE v = "Standard" -> <<>>
      [] v = "Double" -> <<"2">>
      [] v = "Inverse" -> <<"'">>

Move_fmt(mv) == get_move_name(mv) \o MoveVariant_fmt(get_variant(mv))

(***************************************************************************)
(* scramble_parser.rs: parse_scramble.                                     *)
(***************************************************************************)
Whitespace == {" "}

\* str::split_whitespace: the maximal pieces without whitespace, in order.
RECURSIVE split_from(_, _, _)
split_from(text, piece, k) ==
    IF k > Len(text)
    THEN IF piece = <<>> THEN <<>> ELSE <<piece>>
    ELSE IF text[k] \in Whitespace
         THEN (IF piece = <<>> THEN <<>> ELSE <<piece>>) \o split_from(text, <<>>, k + 1)
         ELSE split_from(text, Append(piece, text[k]), k + 1)

split_whitespace(text) == split_from(text, <<>>, 1)

contains(mv, ch) == \E k \in 1..Len(mv) : mv[k] = ch

\* mv[0..1].parse::<CubeSize>().unwrap_or(2): one character parses as a
\* number only when it is a digit.
get_slice(mv) ==
    IF ~contains(mv, "w") THEN 1
    ELSE IF \E d \in 0..9 : Digits[d + 1] = mv[1]
         THEN CHOOSE d \in 0..9 : Digits[d + 1] = mv[1]
         ELSE 2

parser_get_variant_mut(mv) ==
    IF contains(mv, "'") THEN "Double"
    ELSE IF contains(mv, "2") THEN "Inverse"
    ELSE "Standard"

\* get_variant(mv: &str) of scramble_parser.rs.
parser_get_variant(mv) ==
    IF contains(mv, "2") THEN "Double"
    ELSE IF contains(mv, "'") THEN "Inverse"
    ELSE "Standard"

\* The value that stands for panic!(): convert_move does not return.
Panic == Mv("panic!", 0, "Standard")

convert_move(mv) ==
    LET slice == get_slice(mv)
        variant == parser_get_variant(mv)
    IN IF ~contains(mv, "w")
       THEN CASE mv[1] = "U" -> Mv("U", 0, variant)
              [] mv[1] = "R" -> Mv("R", 0, variant)
              [] mv[1] = "F" -> Mv("F", 0, variant)
              [] mv[1] = "L" -> Mv("L", 0, variant)
              [] mv[1] = "D" -> Mv("D", 0, variant)
              [] mv[1] = "B" -> Mv("B", 0, variant)
              [] mv[1] = "x" -> Mv("X", 0, variant)
              [] mv[1] = "y" -> Mv("Y", 0, variant)
              [] mv[1] = "z" -> Mv("Z", 0, variant)
              [] OTHER -> Panic
       ELSE IF contains(mv, "U") THEN Mv("Uw", slice, variant)
       ELSE IF contains(mv, "R") THEN Mv("Rw", slice, variant)
       ELSE IF contains(mv, "F") THEN Mv("Fw", slice, variant)
       ELSE IF contains(mv, "L") THEN Mv("Lw", slice, variant)
       ELSE IF contains(mv, "D") THEN Mv("Dw", slice, variant)
       ELSE IF contains(mv, "B") THEN Mv("Bw", slice, variant)
       ELSE IF contains(mv, "x") THEN Mv("X", 0, variant)
       ELSE IF contains(mv, "y") THEN Mv("Y", 0, variant)
       ELSE IF contains(mv, "z") THEN Mv("Z", 0, variant)
       ELSE Panic

\* scramble.split_whitespace().map(convert_move).collect()
parse_scramble(scramble) ==
    LET tokens == split_whitespace(scramble)
    IN [k \in 1..Len(tokens) |-> convert_move(tokens[k])]

(***************************************************************************)
(* A caller of parse_scramble: it writes move tokens separated by a        *)
(* space and hands the text to parse_scramble.  frame.typed keeps the      *)
(* tokens as they were written.                                            *)
(***************************************************************************)
\* The moves whose Display text the caller writes.
RenderedMoves ==
    {Mv(nm, 0, v) : nm \in FaceMoveNames \cup RotationMoveNames, v \in MoveVariant}
        \cup {Mv(nm, k, v) : nm \in WideMoveNames, k \in 1..MaxLayerCount, v \in MoveVariant}

\* The tokens the caller writes: the Display text of a move, a lower-case
\* rotation, a wide move with a written count of one or two digits, and
\* tokens that are no move.
ParseTokens ==
    {Move_fmt(m) : m \in RenderedMoves}
        \cup {<<c>> \o MoveVariant_fmt(v) : c \in {"x", "y", "z"}, v \in MoveVariant}
        \cup {<<"2", "R", "w">>, <<"1", "2", "R", "w">>, <<"1", "0", "U", "w", "'">>,
              <<"Q">>, <<"U", "x">>, <<"R", "3">>, <<"R", "q">>}

InitParse ==
    /\ size = MaxSize
    /\ facelet = FaceletCube_new(size)
    /\ geo = GeoCube_new(size)
    /\ history = <<>>
    /\ masked = 0
    /\ ret = NoRet
    /\ pc = "typing"
    /\ input = <<>>
    /\ output = NoMoves
    /\ frame = [call |-> "parse_scramble", typed |-> <<>>]

type_token(tok) ==
    /\ pc = "typing"
    /\ Len(frame.typed) < MaxTokens
    /\ input' = IF input = <<>> THEN tok ELSE input \o <<" ">> \o tok
    /\ frame' = [frame EXCEPT !.typed = Append(@, tok)]
    /\ UNCHANGED <<size, facelet, geo, history, masked, ret, pc, output>>

\* parse_scramble(input): it returns the moves, or a panic!() of
\* convert_move unwinds out of it.
parse_call ==
    /\ pc = "typing"
    /\ LET moves == parse_scramble(input)
       IN IF \E k \in 1..Len(moves) : moves[k] = Panic
          THEN pc' = "panicked" /\ output' = output
          ELSE pc' = "parsed" /\ output' = moves
    /\ UNCHANGED <<frame, size, facelet, geo, history, masked, ret, input>>

NextParse ==
    \/ \E tok \in ParseTokens : type_token(tok)
    \/ parse_call

SpecParse == InitParse /\ [][NextParse]_vars

(***************************************************************************)
(* Properties of parse_scramble, checked under SpecParse.                  *)
(***************************************************************************)
SuffixVariant(suffix) ==
    CASE suffix = <<>> -> "Standard"
      [] suffix = <<"2">> -> "Double"
      [] suffix = <<"'">> -> "Inverse"

IsSuffix(suffix) == suffix \in {<<>>, <<"2">>, <<"'">>}

\* A single-layer token: a face or rotation letter and an optional suffix.
SingleLayerToken(tok) ==
    /\ Len(tok) >= 1
    /\ tok[1] \in FaceMoveNames \cup {"x", "y", "z"}
    /\ IsSuffix(Tail(tok))

ExpectedSingle(tok) ==
    Mv(CASE tok[1] = "x" -> "X" [] tok[1] = "y" -> "Y" [] tok[1] = "z" -> "Z"
         [] OTHER -> tok[1],
       0, SuffixVariant(Tail(tok)))

ParseReturned == pc \in {"parsed", "panicked"}

\* C12: a text of single-layer tokens (a face letter or x, y, z followed
\* by nothing, "2" or "'") parses to one move per token in the same order,
\* with variant Standard, Double or Inverse; the empty text gives the
\* empty sequence.
C12_ParseSingleLayer ==
    (ParseReturned /\ \A k \in 1..Len(frame.typed) : SingleLayerToken(frame.typed[k]))
    => /\ pc = "parsed"
       /\ output = [k \in 1..Len(frame.typed) |-> ExpectedSingle(frame.typed[k])]

\* "R2 U'" has been parsed.
C12_Witness ==
    /\ pc = "parsed"
    /\ input = <<"R", "2", " ", "U", "'">>
    /\ output = <<Mv("R", 0, "Double"), Mv("U", 0, "Inverse")>>

\* The leading digits of a token, and their value (2 when there are none).
RECURSIVE LeadingDigits(_)
LeadingDigits(tok) ==
    IF tok # <<>> /\ tok[1] \in Range(Digits)
    THEN <<tok[1]>> \o LeadingDigits(Tail(tok))
    ELSE <<>>

RECURSIVE FromDecimal(_)
FromDecimal(ds) ==
    IF ds = <<>> THEN 0
    ELSE 10 * FromDecimal(SubSeq(ds, 1, Len(ds) - 1))
           + (CHOOSE d \in 0..9 : Digits[d + 1] = ds[Len(ds)])

\* A wide token: an optional count, a face letter, "w", an optional suffix.
WideToken(tok) ==
    LET rest == SubSeq(tok, Len(LeadingDigits(tok)) + 1, Len(tok))
    IN /\ Len(rest) >= 2
       /\ rest[1] \in FaceMoveNames
       /\ rest[2] = "w"
       /\ IsSuffix(SubSeq(rest, 3, Len(rest)))

ExpectedWide(tok) ==
    LET count == LeadingDigits(tok)
        rest == SubSeq(tok, Len(count) + 1, Len(tok))
    IN Mv(CASE rest[1] = "U" -> "Uw" [] rest[1] = "L" -> "Lw" [] rest[1] = "F" -> "Fw"
            [] rest[1] = "R" -> "Rw" [] rest[1] = "B" -> "Bw" [] rest[1] = "D" -> "Dw",
          IF count = <<>> THEN 2 ELSE FromDecimal(count),
          SuffixVariant(SubSeq(rest, 3, Len(rest))))

\* C13: a wide token parses to the wide move of its face, with the written
\* layer count (2 when none is written) and the variant its suffix alone
\* gives, so a written count such as 2Rw or 12Rw does not change the variant.
C13_ParseWide ==
    (ParseReturned /\ Len(frame.typed) = 1 /\ WideToken(frame.typed[1]))
    => pc = "parsed" /\ output = <<ExpectedWide(frame.typed[1])>>

\* C14: for every move m, parse_scramble of the Display text of m returns
\* exactly [m].
C14_RenderParseRoundTrip ==
    \A m \in RenderedMoves :
        (ParseReturned /\ frame.typed = <<Move_fmt(m)>>)
        => pc = "parsed" /\ output = <<m>>

\* C15: on a token that is no well-formed move token the call ends by
\* returning a ParseError: the token is not accepted as a move and the
\* call does not panic.
C15_ParseErrorReturned ==
    (pc # "typing"
        /\ \E k \in 1..Len(frame.typed) :
              ~SingleLayerToken(frame.typed[k]) /\ ~WideToken(frame.typed[k]))
    => pc = "parse_error"

(***************************************************************************)
(* Construction: a caller asks for a cube of a size of its choice          *)
(* (CubeSize is i32, so the size may be zero or negative), in both forms,  *)
(* and then masks the cubes it got.                                        *)
(***************************************************************************)
NotConstructed == [error |-> "none"]

InitNew ==
    /\ size \in (-MaxSize)..MaxSize
    /\ facelet = NotConstructed
    /\ geo = NotConstructed
    /\ history = <<>>
    /\ masked = 0
    /\ ret = NoRet
    /\ pc = "requested"
    /\ input = NoMoves
    /\ output = NoMoves
    /\ frame = NoFrame

\* FaceletCube::new(size) and GeoCube::new(size).
new_call ==
    /\ pc = "requested"
    /\ facelet' = FaceletCube_new(size)
    /\ geo' = GeoCube_new(size)
    /\ pc' = "constructed"
    /\ UNCHANGED <<frame, size, history, masked, ret, input, output>>

NextNew ==
    \/ new_call
    \/ \E id \in Projectors : pc = "constructed" /\ mask_call(id)
    \/ pc = "constructed" /\ Bind

SpecNew == InitNew /\ [][NextNew]_vars

\* What a constructor that refuses the size would hand back.
InvalidSizeError == [error |-> "InvalidSizeError"]

\* C16: asking for a cube of a size below 1 is reported as an
\* InvalidSizeError: no cube value is produced.
C16_InvalidSizeReported ==
    (pc = "constructed" /\ size < 1) =>
        facelet = InvalidSizeError /\ geo = InvalidSizeError

(***************************************************************************)
(* scramble_parser.rs: random_scramble.  One action per outcome of an      *)
(* iteration of its loop; the random draws are the actions' parameters.    *)
(* frame holds the locals; an Option is None or Some(x).  The loop's       *)
(* cube_size * 10 iterations are capped at MaxIterations.                  *)
(***************************************************************************)
Iterations(cube_size) ==
    IF cube_size * 10 < MaxIterations THEN cube_size * 10 ELSE MaxIterations

InitRandom ==
    /\ size \in 1..MaxSize
    /\ facelet = NotConstructed
    /\ geo = NotConstructed
    /\ history = <<>>
    /\ masked = 0
    /\ ret = NoRet
    /\ pc = "idle"
    /\ input = NoMoves
    /\ output = NoMoves
    /\ frame = NoFrame

\* random_scramble(size, has_move_slice) is entered: the locals before the loop.
random_scramble_call(has_move_slice) ==
    /\ pc = "idle"
    /\ frame' = [call |-> "random_scramble", has_move_slice |-> has_move_slice,
                 i |-> 0, last_move |-> None, last_move_variant |-> None,
                 last_move_slice |-> None]
    /\ output' = <<>>
    /\ pc' = "looping"
    /\ UNCHANGED <<size, facelet, geo, history, masked, ret, input>>

\* One iteration that reaches its push.  random_variant is rand::random(),
\* random_type is gen_range(0..=5), coin is gen_bool(0.5) and random_slice
\* is gen_range(1..cube_size), drawn only when coin is true.
loop_iteration(random_variant, random_type, coin, random_slice) ==
    /\ pc = "looping"
    /\ frame.i < Iterations(size)
    /\ coin => random_slice \in 1..(size - 1)
    /\ ~coin => random_slice = 0
    /\ LET move_type ==
               IF frame.last_move # None /\ random_type = frame.last_move[1]
               THEN (random_type + 1) % 6
               ELSE random_type
           move_variant ==
               IF frame.last_move_variant # None
                    /\ random_variant = frame.last_move_variant[1]
               THEN CASE random_variant = "Standard" -> "Inverse"
                      [] random_variant = "Inverse" -> "Double"
                      [] random_variant = "Double" -> "Standard"
               ELSE random_variant
           checked_slice ==
               IF frame.last_move_slice # None /\ 1 = frame.last_move_slice[1]
               THEN (1 + 1) % size
               ELSE 1
           move_slice == IF coin THEN random_slice ELSE checked_slice
           face == <<"U", "R", "F", "L", "D", "B">>[move_type + 1]
           wide == <<"Uw", "Rw", "Fw", "Lw", "Dw", "Bw">>[move_type + 1]
           mv == IF frame.has_move_slice /\ move_slice # 1
                 THEN Mv(wide, move_slice, move_variant)
                 ELSE Mv(face, 0, move_variant)
       IN /\ output' = Append(output, mv)
          /\ frame' = [frame EXCEPT !.i = @ + 1,
                                    !.last_move = Some(move_type),
                                    !.last_move_variant = Some(move_variant),
                                    !.last_move_slice = Some(move_slice)]
    /\ UNCHANGED <<size, facelet, geo, history, masked, ret, pc, input>>

\* An iteration in which gen_range(1..cube_size) is asked for a number of
\* an empty range: it panics.
loop_iteration_panics ==
    /\ pc = "looping"
    /\ frame.i < Iterations(size)
    /\ 1..(size - 1) = {}
    /\ pc' = "panicked"
    /\ UNCHANGED <<frame, size, facelet, geo, history, masked, ret, input, output>>

random_scramble_return ==
    /\ pc = "looping"
    /\ frame.i = Iterations(size)
    /\ pc' = "returned"
    /\ UNCHANGED <<frame, size, facelet, geo, history, masked, ret, input, output>>

NextRandom ==
    \/ \E has_move_slice \in BOOLEAN : random_scramble_call(has_move_slice)
    \/ \E random_variant \in MoveVariant, random_type \in 0..5, coin \in BOOLEAN,
          random_slice \in 0..MaxSize :
          loop_iteration(random_variant, random_type, coin, random_slice)
    \/ loop_iteration_panics
    \/ random_scramble_return

SpecRandom == InitRandom /\ [][NextRandom]_vars

(***************************************************************************)
(* Properties of random_scramble, checked under SpecRandom.                *)
(***************************************************************************)
\* The face a move is named after.
MoveFace(mv) == NameText(mv.name)[1]

\* C17: in the sequence random_scramble builds, two consecutive moves are
\* of different faces, have different variants and, when both are wide,
\* have different layer counts.
C17_ConsecutiveMovesDiffer ==
    pc \in {"looping", "returned"} =>
        \A k \in 1..(Len(output) - 1) :
            /\ MoveFace(output[k]) # MoveFace(output[k + 1])
            /\ output[k].variant # output[k + 1].variant
            /\ (output[k].name \in WideMoveNames /\ output[k + 1].name \in WideMoveNames)
                  => output[k].n # output[k + 1].n

\* A move that is legal for a cube of size N.
LegalFor(N, mv) ==
    \/ mv.name \in FaceMoveNames
    \/ mv.name \in WideMoveNames /\ 1 <= mv.n /\ mv.n <= N \div 2

\* C18: every move random_scramble yields is legal for the size (a
\* single-layer turn, or a wide turn of 1..N/2 layers), and the call never
\* fails to return.
C18_ScrambleLegal ==
    /\ pc # "panicked"
    /\ pc \in {"looping", "returned"} =>
          \A k \in 1..Len(output) : LegalFor(size, output[k])

(***************************************************************************)
(* generic_cube.rs: all_moves(size), in the order the loops push them.     *)
(***************************************************************************)
all_moves(sz) ==
    LET variants == <<"Standard", "Double", "Inverse">>
        faces == <<"U", "R", "F", "L", "D", "B">>
        wides == <<"Uw", "Lw", "Fw", "Rw", "Bw", "Dw">>
        slices == sz \div 2
    IN [k \in 1..18 |->
           Mv(faces[((k - 1) \div 3) + 1], 0, variants[((k - 1) % 3) + 1])]
       \o [k \in 1..(18 * slices) |->
              Mv(wides[((k - 1) \div (3 * slices)) + 1],
                 ((k - 1) % slices) + 1,
                 variants[(((k - 1) \div slices) % 3) + 1])]

(***************************************************************************)
(* thistlethwaite / generic_solver: the solver, as the specification       *)
(* describes it (sections 4.3 to 4.5).  The chain chosen here is           *)
(*   eo      edge orientation, all single-layer moves;                     *)
(*   domino  corner orientation and middle-slice placement, moves that     *)
(*           keep the edge orientation (F and B only as half turns);       *)
(*   final   the full permutation, moves that keep the domino reduction    *)
(*           (only U and D as quarter turns).                              *)
(* A phase's coordinate is the state() of the masked cube; the integer     *)
(* encoding of it is one-to-one and is left out.  An Option is the empty   *)
(* sequence (None) or a one-element sequence (Some).                       *)
(***************************************************************************)
SolveSize == 3

Phases == <<"eo", "domino", "final">>

PhaseMoves(p) ==
    LET Legal(mv) ==
            /\ mv.name \in FaceMoveNames
            /\ p = "domino" => (mv.name \in {"F", "B"} => mv.variant = "Double")
            /\ p = "final" => (mv.name \notin {"U", "D"} => mv.variant = "Double")
    IN SelectSeq(all_moves(SolveSize), Legal)

\* The stickers that carry an edge's orientation: the U and D stickers of
\* the edges of the U and D layers, the F and B stickers of the others.
OrientationStickers ==
    {sticker_index(SolveSize, f, k) : f \in {"U", "D"}, k \in {2, 4, 6, 8}}
        \cup {sticker_index(SolveSize, f, k) : f \in {"F", "B"}, k \in {4, 6}}

PhaseProject_mut(p, i, f) ==
    CASE p = "eo" -> IF i \in OrientationStickers THEN "U" ELSE "X"
      [] p = "domino" -> IF f \in {"U", "D"} THEN "U" ELSE "X"
      [] p = "final" -> IF f \in {"U", "D"} THEN f ELSE "X"

PhaseProject(p, i, f) ==
    CASE p = "eo" -> IF i \in OrientationStickers THEN "U" ELSE "X"
      [] p = "domino" -> IF f \in {"U", "D"} THEN "U" ELSE "X"
      [] p = "final" -> f

coordinate(p, cube) ==
    LET mask == [i \in 0..(6 * cube.size * cube.size - 1), f \in Face |->
                    PhaseProject(p, i, f)]
    IN FaceletCube_state(FaceletCube_mask(cube, mask))

\* The phase's goal: the coordinate of the solved cube.
target_coordinate_mut(p) ==
    coordinate(p, FaceletCube_apply_move(FaceletCube_new(SolveSize),
                                         Mv("F", 0, "Standard")))

target_coordinate(p) == coordinate(p, FaceletCube_new(SolveSize))

\* A move acts on a coordinate as it acts on the masked cube's stickers.
coordinate_apply(c, mv) == compute_permutation(c, SolveSize, mv)

\* The breadth-first build: table maps the coordinates found so far to the
\* depth they were first reached at, frontier holds those of the last depth.
RECURSIVE breadth_first_mut(_, _, _, _)
breadth_first_mut(p, table, frontier, depth) ==
    IF frontier = {} \/ depth = MaxPhaseDepth THEN table
    ELSE LET moves == PhaseMoves(p)
             discovered ==
                 {coordinate_apply(c, moves[k]) : c \in frontier, k \in 1..Len(moves)}
         IN breadth_first_mut(p, [c \in discovered |-> depth + 1] @@ table,
                              discovered, depth + 1)

RECURSIVE breadth_first(_, _, _, _)
breadth_first(p, table, frontier, depth) ==
    IF frontier = {} \/ depth = MaxPhaseDepth THEN table
    ELSE LET moves == PhaseMoves(p)
             discovered ==
                 {coordinate_apply(c, moves[k]) : c \in frontier, k \in 1..Len(moves)}
                     \ DOMAIN table
         IN breadth_first(p, table @@ [c \in discovered |-> depth + 1],
                          discovered, depth + 1)

PruningTable_new(p) ==
    breadth_first(p, [c \in {target_coordinate(p)} |-> 0], {target_coordinate(p)}, 0)

\* Built once per phase and kept.
PruningTables == [p \in Range(Phases) |-> PruningTable_new(p)]

\* The table's lower bound; a coordinate the build did not reach within
\* the maximum depth is further away than that.
lower_bound(p, c) ==
    IF c \in DOMAIN PruningTables[p] THEN PruningTables[p][c] ELSE MaxPhaseDepth + 1

\* The depth-first traversal under depth bound d: search visits a cube
\* reached by path, try_moves its successors from the k-th legal move on.
RECURSIVE search(_, _, _, _)
RECURSIVE try_moves(_, _, _, _, _)
RECURSIVE try_moves_mut(_, _, _, _, _)
try_moves_mut(p, cube, path, d, k) ==
    IF k > Len(PhaseMoves(p)) THEN None
    ELSE LET mv == PhaseMoves(p)[Len(PhaseMoves(p)) + 1 - k]
             found == search(p, FaceletCube_apply_move(cube, mv), Append(path, mv), d)
         IN IF found # None THEN found ELSE try_moves_mut(p, cube, path, d, k + 1)

search(p, cube, path, d) ==
    LET c == coordinate(p, cube)
    IN IF lower_bound(p, c) + Len(path) > d THEN None
       ELSE IF c = target_coordinate(p) THEN Some(path)
       ELSE try_moves(p, cube, path, d, 1)

try_moves(p, cube, path, d, k) ==
    IF k > Len(PhaseMoves(p)) THEN None
    ELSE LET mv == PhaseMoves(p)[k]
             found == search(p, FaceletCube_apply_move(cube, mv), Append(path, mv), d)
         IN IF found # None THEN found ELSE try_moves(p, cube, path, d, k + 1)

\* Depth bounds d, d + 1, ... up to the configured maximum.
RECURSIVE deepen(_, _, _)
deepen(p, cube, d) ==
    IF d > MaxPhaseDepth THEN None
    ELSE LET found == search(p, cube, <<>>, d)
         IN IF found # None THEN found ELSE deepen(p, cube, d + 1)

phase_solve(p, cube) == deepen(p, cube, 0)

\* The orchestrator: phase k's output cube is phase k + 1's input; the
\* concatenation goes once through simplify_moves.
RECURSIVE run_phases(_, _, _)
run_phases(k, cube, moves) ==
    IF k > Len(Phases) THEN Some(simplify_moves(moves))
    ELSE LET found == phase_solve(Phases[k], cube)
         IN IF found = None THEN None
            ELSE run_phases(k + 1, FaceletCube_apply_moves(cube, found[1]),
                            moves \o found[1])

solve(cube) == run_phases(1, cube, <<>>)

(***************************************************************************)
(* examples/solver.rs: a 3x3x3 cube is scrambled from solved, solve is     *)
(* called on it, and a returned sequence is applied to the scrambled cube. *)
(***************************************************************************)
ScrambleMoves == {Mv(nm, 0, v) : nm \in FaceMoveNames, v \in MoveVariant}

InitSolve ==
    /\ size = SolveSize
    /\ facelet = FaceletCube_new(size)
    /\ geo = GeoCube_new(size)
    /\ history = <<>>
    /\ masked = 0
    /\ ret = NoRet
    /\ pc = "scrambling"
    /\ input = NoMoves
    /\ output = None
    /\ frame = NoFrame

scramble_move(mv) ==
    /\ pc = "scrambling"
    /\ Len(history) < MaxScramble
    /\ facelet' = FaceletCube_apply_move(facelet, mv)
    /\ history' = Append(history, mv)
    /\ UNCHANGED <<frame, size, geo, masked, ret, pc, input, output>>

solve_call ==
    /\ pc = "scrambling"
    /\ output' = solve(facelet)
    /\ pc' = "returned"
    /\ UNCHANGED <<frame, size, facelet, geo, history, masked, ret, input>>

apply_solution ==
    /\ pc = "returned"
    /\ output # None
    /\ facelet' = FaceletCube_apply_moves(facelet, output[1])
    /\ pc' = "applied"
    /\ UNCHANGED <<frame, size, geo, history, masked, ret, input, output>>

NextSolve ==
    \/ \E mv \in ScrambleMoves : scramble_move(mv)
    \/ solve_call
    \/ apply_solution

SpecSolve == InitSolve /\ [][NextSolve]_vars

(***************************************************************************)
(* Properties of the solver, checked under SpecSolve.                      *)
(***************************************************************************)
\* C3: whenever solve returns a sequence s for a 3x3x3 cube reached from
\* the solved cube by a move sequence, the cube with s applied is solved.
C3_SolverSound ==
    pc = "applied" => is_solved(size, FaceletCube_state(facelet))

\* The scramble U R has been solved by two phases: R' restores the domino
\* reduction, then U' the rest; the sequence has been applied.
C3_Witness ==
    /\ pc = "applied"
    /\ history = <<Mv("U", 0, "Standard"), Mv("R", 0, "Standard")>>
    /\ output = Some(<<Mv("R", 0, "Inverse"), Mv("U", 0, "Inverse")>>)
    /\ is_solved(size, FaceletCube_state(facelet))

\* C4: solve applied to the solved 3x3x3 cube returns the present and
\* empty sequence: not None and not a sequence that holds a move.
C4_SolvedNeedsNoMoves ==
    (pc = "returned" /\ history = <<>>) => output = Some(<<>>)

\* solve has returned for the cube that was never turned.
C4_Witness ==
    /\ pc = "returned"
    /\ history = <<>>
    /\ facelet = FaceletCube_new(SolveSize)
    /\ output # None
    /\ output[1] = <<>>

\* The cube the k-th phase of the chain is given: the scrambled cube with
\* the sequences of the phases before it applied (None when one of them
\* found nothing).
RECURSIVE PhaseInput(_, _)
PhaseInput(k, cube) ==
    IF k = 1 THEN Some(cube)
    ELSE LET before == PhaseInput(k - 1, cube)
         IN IF before = None THEN None
            ELSE LET found == phase_solve(Phases[k - 1], before[1])
                 IN IF found = None THEN None
                    ELSE Some(FaceletCube_apply_moves(before[1], found[1]))

\* The reference the search is compared with: every sequence of exactly d
\* moves of the phase's subset, in the subset's enumeration order, with no
\* pruning; the first that ends at the goal coordinate.
RECURSIVE FirstOfLength(_, _, _, _, _)
FirstOfLength(p, cube, path, d, k) ==
    IF Len(path) = d
    THEN IF coordinate(p, cube) = target_coordinate(p) THEN Some(path) ELSE None
    ELSE IF k > Len(PhaseMoves(p)) THEN None
    ELSE LET mv == PhaseMoves(p)[k]
             found == FirstOfLength(p, FaceletCube_apply_move(cube, mv),
                                    Append(path, mv), d, 1)
         IN IF found # None THEN found
            ELSE FirstOfLength(p, cube, path, d, k + 1)

RECURSIVE FirstShortest(_, _, _)
FirstShortest(p, cube, d) ==
    IF d > MaxPhaseDepth THEN None
    ELSE LET found == FirstOfLength(p, cube, <<>>, d, 1)
         IN IF found # None THEN found ELSE FirstShortest(p, cube, d + 1)

\* C22: phase-local optimality.  For each phase of the chain run on a cube
\* scrambled by up to MaxReferenceScramble moves, the sequence the iterative-deepening search returns is
\* a shortest sequence of the phase's move subset that reaches the phase's
\* goal coordinate, and among those the first in the subset's enumeration
\* order; the pruning by the table's bound loses none.
C22_PhaseLocalOptimal ==
    (pc = "returned" /\ Len(history) <= MaxReferenceScramble) =>
        \A k \in 1..Len(Phases) :
            LET given == PhaseInput(k, facelet)
            IN given # None =>
                  phase_solve(Phases[k], given[1]) = FirstShortest(Phases[k], given[1], 0)

\* solve has returned for the scramble R2 L2, which the last phase is given
\* as it is: the table's bound for it is 2, so the depth bounds 0 and 1 are
\* cut at the root; two sequences of two moves reach the goal, and the
\* search has returned one of them.
C22_Witness ==
    /\ pc = "returned"
    /\ history = <<Mv("R", 0, "Double"), Mv("L", 0, "Double")>>
    /\ LET given == PhaseInput(3, facelet)
           found == phase_solve("final", given[1])
           one == <<Mv("R", 0, "Double"), Mv("L", 0, "Double")>>
           other == <<Mv("L", 0, "Double"), Mv("R", 0, "Double")>>
           Reaches(s) == coordinate("final", FaceletCube_apply_moves(given[1], s))
                            = target_coordinate("final")
       IN /\ given = Some(facelet)
          /\ lower_bound("final", coordinate("final", facelet)) = 2
          /\ Reaches(one) /\ Reaches(other)
          /\ found # None
          /\ found[1] \in {one, other}

\* The reference the table is compared with: the coordinates that the
\* sequences of exactly L moves of the phase's subset lead to from the
\* solved cube, every sequence enumerated, nothing remembered between them.
ReachedByLength ==
    [p \in Range(Phases) |->
        [L \in 0..MaxReferenceScramble |->
            {coordinate(p, FaceletCube_apply_moves(FaceletCube_new(SolveSize), s)) :
                s \in [1..L -> Range(PhaseMoves(p))]}]]

ExactDistance(p, c) ==
    CHOOSE L \in 0..MaxReferenceScramble :
        /\ c \in ReachedByLength[p][L]
        /\ \A shorter \in 0..(L - 1) : c \notin ReachedByLength[p][shorter]

SimulatorCubeSize == 3

\* The keys tried: R, Shift+U, and Ctrl+2+F.
KeyMoves ==
    {Mv("R", 0, "Standard"), Mv("U", 0, "Inverse"), Mv("Fw", 2, "Double")}

\* Sequences random_scramble(3, false) can return, cut to MaxIterations moves.
ScrambleDraws ==
    {<<Mv("F", 0, "Standard"), Mv("R", 0, "Inverse")>>,
     <<Mv("U", 0, "Double"), Mv("D", 0, "Standard")>>}

\* SimulatorPlugin::build and RubiksPlugin::build: the resources at start.
InitSimulator ==
    /\ size = SimulatorCubeSize
    /\ facelet = NotConstructed
    /\ geo = NewCubes[size].geo
    /\ history = <<>>
    /\ masked = 0
    /\ ret = NoRet
    /\ pc = "Menu"
    /\ input = <<>>
    /\ output = <<>>
    /\ frame = [call |-> "simulator", rotating |-> FALSE, solution |-> FALSE]

\* keyboard_input_system, one key just pressed: it runs in every state.
keyboard_input_system(mv) ==
    /\ pc \in {"Menu", "Playing"}
    /\ Len(history) + Len(input) < MaxPending
    /\ input' = Append(input, mv)
    /\ frame' = [frame EXCEPT !.solution = FALSE]
    /\ UNCHANGED <<size, facelet, geo, history, masked, ret, pc, output>>

rotate_control_mut ==
    /\ pc \in {"Menu", "Playing"}
    /\ ~frame.rotating
    /\ input # <<>>
    /\ LET move_ == input[Len(input)]
       IN /\ input' = SubSeq(input, 1, Len(input) - 1)
          /\ geo' = GeoCube_apply_move(geo, move_)
          /\ history' = Append(history, move_)
          /\ IF pc = "Playing"
             THEN /\ output' = [k \in 1..Len(history') |-> Move_fmt(history'[k])]
                  /\ frame' = [frame EXCEPT !.rotating = TRUE]
                  /\ pc' = pc
             ELSE /\ pc' = "panicked"
                  /\ UNCHANGED <<output, frame>>
    /\ UNCHANGED <<size, facelet, masked, ret>>

\* rotate_control, when it takes a move: it runs in every state, returns at
\* once while a piece is rotating, and pops the front of the queue.  With
\* no MovesText (outside Playing) q_text.single_mut() panics, after the
\* cube and the history were written.  In Playing every move marks pieces.
rotate_control ==
    /\ pc \in {"Menu", "Playing"}
    /\ ~frame.rotating
    /\ input # <<>>
    /\ LET move_ == Head(input)
       IN /\ input' = Tail(input)
          /\ geo' = GeoCube_apply_move(geo, move_)
          /\ history' = Append(history, move_)
          /\ IF pc = "Playing"
             THEN /\ output' = [k \in 1..Len(history') |-> Move_fmt(history'[k])]
                  /\ frame' = [frame EXCEPT !.rotating = TRUE]
                  /\ pc' = pc
             ELSE /\ pc' = "panicked"
                  /\ UNCHANGED <<output, frame>>
    /\ UNCHANGED <<size, facelet, masked, ret>>

\* rotate_piece, in the frame in which the angle runs out: the markers are
\* removed.  The frames before it change nothing that is modelled.
rotate_piece ==
    /\ pc = "Playing"
    /\ frame.rotating
    /\ frame' = [frame EXCEPT !.rotating = FALSE]
    /\ UNCHANGED <<size, facelet, geo, history, masked, ret, pc, input, output>>

cube_setup_mut ==
    /\ geo' = NewCubes[size].geo
    /\ UNCHANGED history

\* cube_setup (on entering Playing): the cube and the history are reset
\* and the pieces are spawned.
cube_setup ==
    /\ geo' = NewCubes[size].geo
    /\ history' = <<>>

\* clean_up (on leaving Playing): the queue is cleared, the UI and the
\* pieces (with their markers) are despawned.
clean_up ==
    /\ input' = <<>>
    /\ output' = <<>>
    /\ frame' = [frame EXCEPT !.rotating = FALSE, !.solution = FALSE]

\* menu_action, Play clicked: GameState::Playing is entered; game_ui spawns
\* the MovesText with no moves shown.
menu_action ==
    /\ pc = "Menu"
    /\ pc' = "Playing"
    /\ cube_setup
    /\ output' = <<>>
    /\ UNCHANGED <<frame, size, facelet, masked, ret, input>>

\* button_system, a button of the game UI clicked.
button_system(button, cmds) ==
    /\ pc = "Playing"
    /\ CASE button = "BackToMenu" ->
              /\ cmds = <<>>
              /\ pc' = "Menu"
              /\ clean_up
              /\ UNCHANGED <<size, facelet, geo, history, masked, ret>>
         [] button = "CubeScramble" ->
              /\ cmds \in ScrambleDraws
              /\ Len(history) + Len(input) + Len(cmds) <= MaxPending
              /\ input' = input \o cmds
              /\ frame' = [frame EXCEPT !.solution = FALSE]
              /\ UNCHANGED <<size, facelet, geo, history, masked, ret, pc, output>>
         [] button = "CubeSolver" ->
              /\ cmds = <<>>
              /\ Len(history) + Len(input) <= MaxPending
              /\ Len(input) <= MaxPending
              /\ \E cube \in {FaceletCube_apply_moves(NewCubes[size].facelet, history)} :
                    \E solution \in {solve(cube)} :
                       IF solution # None
                       THEN /\ input' = input \o solution[1]
                            /\ frame' = [frame EXCEPT !.solution = TRUE]
                       ELSE UNCHANGED <<input, frame>>
              /\ UNCHANGED <<size, facelet, geo, history, masked, ret, pc, output>>

NextSimulator ==
    \/ \E mv \in KeyMoves : keyboard_input_system(mv)
    \/ rotate_control
    \/ rotate_piece
    \/ menu_action
    \/ \E button \in {"BackToMenu", "CubeScramble", "CubeSolver"},
          cmds \in ScrambleDraws \cup {<<>>} : button_system(button, cmds)

SpecSimulator == InitSimulator /\ [][NextSimulator]_vars

(***************************************************************************)
(* Properties of the simulator, checked under SpecSimulator.               *)
(***************************************************************************)
\* C27: in every state of the simulator the current cube is the solved
\* cube of its size with the recorded history applied, and entering
\* Playing resets the cube to the solved cube and the history to empty.
C27_HistoryInvariant ==
    /\ [](geo = GeoCube_apply_moves(NewCubes[size].geo, history))
    /\ [][(pc = "Menu" /\ pc' = "Playing") =>
             (geo' = NewCubes[size].geo /\ history' = <<>>)]_vars

\* Playing, two moves applied and recorded, a third waiting while pieces
\* rotate; the cube is not the solved cube.
C27_Witness ==
    /\ pc = "Playing"
    /\ Len(history) = 2
    /\ input # <<>>
    /\ frame.rotating
    /\ geo # NewCubes[size].geo

\* C28: after Apply solver was clicked and solve returned a sequence, the
\* cube is solved once the queue has drained (nothing having been put on
\* the queue after the solution), whatever was waiting on the queue at the
\* click.
C28_SolvedAfterDrain ==
    (pc = "Playing" /\ frame.solution /\ input = <<>>) =>
        is_solved(size, GeoCube_state(geo))

\* C29: the queue is first in, first out.  Every step that changes the
\* queue, the cube or the history either takes the front move, with no
\* piece rotating, applies it to the cube and appends it to the history,
\* or puts moves at the back of the queue and leaves cube and history
\* alone, or is the entering or leaving of Playing.
C29_QueueFifo ==
    [][\/ /\ input # <<>>
          /\ ~frame.rotating
          /\ input' = Tail(input)
          /\ history' = Append(history, Head(input))
          /\ geo' = GeoCube_apply_move(geo, Head(input))
       \/ /\ history' = history
          /\ geo' = geo
          /\ Len(input') >= Len(input)
          /\ SubSeq(input', 1, Len(input)) = input
       \/ /\ pc' # pc
          /\ pc' \in {"Menu", "Playing"}]_vars

\* Playing: a move was taken while two others of other kinds waited behind
\* it, the first pressed on a key and the last two put there by a scramble;
\* pieces rotate.
C29_Witness ==
    /\ pc = "Playing"
    /\ frame.rotating
    /\ Len(history) = 1
    /\ history[1] \in KeyMoves
    /\ input \in ScrambleDraws

\* C30: a move is taken from the queue and applied only while the state is
\* Playing; in the Menu state no step changes the queue; and the queue is
\* empty whenever Playing is entered.
C30_OnlyWhilePlaying ==
    [][/\ Len(history') > Len(history) => pc = "Playing"
       /\ pc = "Menu" => input' = input
       /\ (pc = "Menu" /\ pc' = "Playing") => input' = <<>>]_vars

====
